---- MODULE Spec2Model ----
\* serde_sheets: typed records <-> a spreadsheet range, through the csv crate.
\* Texts and CSV buffers are sequences of one-character strings, so that the
\* quoting done by the csv writer and undone by the csv reader is computed.
EXTENDS Integers, Sequences, FiniteSets, TLC

VARIABLES grid, op, calls, result, written, appended, replaced

vars == <<grid, op, calls, result, written, appended, replaced>>

\* ---------------------------------------------------------------- bounds

\* Longest text value of a `name` field in the codec specification.
MaxTextLen == 1
\* Longest slice of objects handed to write_page / the codec.
MaxObjects == 2
\* Most rows the sheet holds (append_row is not taken beyond it).
MaxRows == 4

\* ------------------------------------------------------------ characters

COMMA == ","
QUOTE == "\""
NL == "\n"

\* Characters a `name` may hold: a plain letter and the three CSV specials.
NameChars == {"a", COMMA, QUOTE, NL}

Digits == <<"0", "1", "2", "3", "4", "5", "6", "7", "8", "9">>

RECURSIVE Concat(_)
\* Concatenation of a sequence of sequences.
Concat(ss) == IF ss = <<>> THEN <<>> ELSE Head(ss) \o Concat(Tail(ss))

\* Sequences over S of length at most n.
SeqUpTo(S, n) == UNION {[1..k -> S] : k \in 0..n}

\* ------------------------------------------------- the example's record

\* Field names of ExampleObject, in declaration order, as header cells. An
\* identifier holds no character the csv writer or reader treats specially,
\* so it is kept as one unit of text.
NameField == <<"name">>
NumberOfFoosField == <<"number_of_foos">>

HeaderRow == <<NameField, NumberOfFoosField>>

FieldCount == Len(HeaderRow)

RECURSIVE FormatU64(_)
\* Decimal rendering of an unsigned integer (itoa, as csv's serializer does).
FormatU64(n) ==
    IF n < 10 THEN <<Digits[n + 1]>>
    ELSE FormatU64(n \div 10) \o <<Digits[(n % 10) + 1]>>

DigitValue(c) == CHOOSE d \in 0..9 : Digits[d + 1] = c

IsDigit(c) == \E d \in 0..9 : Digits[d + 1] = c

RECURSIVE ParseDigits(_, _)
ParseDigits(text, acc) ==
    IF text = <<>> THEN acc
    ELSE ParseDigits(Tail(text), acc * 10 + DigitValue(Head(text)))

\* str::parse::<u64>: -1 stands for a ParseIntError.
ParseU64(text) ==
    IF text # <<>> /\ \A i \in 1..Len(text) : IsDigit(text[i])
    THEN ParseDigits(text, 0)
    ELSE -1

\* The cells serde produces for one object, in field declaration order.
DataRow(obj) == <<obj.name, FormatU64(obj.number_of_foos)>>

\* ------------------------------------------------------------ csv writer

\* csv_core::Writer with QuoteStyle::Necessary: a field is quoted when it
\* holds the delimiter, the quote, or a line terminator.
NeedsQuotes(field) ==
    \E i \in 1..Len(field) : field[i] \in {COMMA, QUOTE, NL}

RECURSIVE EscapeQuotes(_)
\* double_quote(true): every quote inside a quoted field is doubled.
EscapeQuotes(field) ==
    IF field = <<>> THEN <<>>
    ELSE (IF Head(field) = QUOTE THEN <<QUOTE, QUOTE>> ELSE <<Head(field)>>)
         \o EscapeQuotes(Tail(field))

\* A plausible slip: fields written as they are, never quoted.
WriteFieldUnquoted(field) == field

WriteField(field) ==
    IF NeedsQuotes(field)
    THEN <<QUOTE>> \o EscapeQuotes(field) \o <<QUOTE>>
    ELSE field

RECURSIVE JoinFields(_)
JoinFields(row) ==
    IF row = <<>> THEN <<>>
    ELSE IF Len(row) = 1 THEN WriteField(row[1])
    ELSE WriteField(row[1]) \o <<COMMA>> \o JoinFields(Tail(row))

\* Writer::write_record: the fields, comma separated, then the terminator;
\* a record that wrote no byte at all is written as "" (csv-core terminator).
WriteRecord(row) ==
    LET bytes == JoinFields(row)
    IN (IF bytes = <<>> THEN <<QUOTE, QUOTE>> ELSE bytes) \o <<NL>>

\* The writer is not flexible: every record must have the first one's length.
EqualLengths(rows) == \A i \in 1..Len(rows) : Len(rows[i]) = Len(rows[1])

WriteRecords(rows) == Concat([i \in 1..Len(rows) |-> WriteRecord(rows[i])])

\* Writer::serialize on structs with has_headers(true): the first call writes
\* the header record before the data record, later calls the data record only.
SerializeObjects(objects) ==
    IF objects = <<>> THEN <<>>
    ELSE WriteRecord(HeaderRow)
         \o Concat([i \in 1..Len(objects) |-> WriteRecord(DataRow(objects[i]))])

\* ------------------------------------------------------------ csv reader

\* csv_core::Reader as a state machine over the buffer. st is one of
\* "StartRecord", "StartField", "InField", "InQuotedField", "InDoubleEscapedQuote".
RECURSIVE ParseFrom(_, _, _, _, _, _)
ParseFrom(data, i, st, field, row, rows) ==
    IF i > Len(data)
    THEN IF st = "StartRecord" THEN rows ELSE Append(rows, Append(row, field))
    ELSE
      LET c == data[i]
          endField == ParseFrom(data, i + 1, "StartField", <<>>, Append(row, field), rows)
          endRecord == ParseFrom(data, i + 1, "StartRecord", <<>>, <<>>,
                                 Append(rows, Append(row, field)))
          push(next) == ParseFrom(data, i + 1, next, Append(field, c), row, rows)
      IN CASE st = "StartRecord" ->
                IF c = NL THEN ParseFrom(data, i + 1, "StartRecord", <<>>, <<>>, rows)
                ELSE ParseFrom(data, i, "StartField", <<>>, <<>>, rows)
           [] st = "StartField" ->
                IF c = QUOTE THEN ParseFrom(data, i + 1, "InQuotedField", field, row, rows)
                ELSE IF c = COMMA THEN endField
                ELSE IF c = NL THEN endRecord
                ELSE push("InField")
           [] st = "InField" ->
                IF c = COMMA THEN endField
                ELSE IF c = NL THEN endRecord
                ELSE push("InField")
           [] st = "InQuotedField" ->
                IF c = QUOTE
                THEN ParseFrom(data, i + 1, "InDoubleEscapedQuote", field, row, rows)
                ELSE push("InQuotedField")
           [] OTHER ->
                IF c = QUOTE THEN push("InQuotedField")
                ELSE IF c = COMMA THEN endField
                ELSE IF c = NL THEN endRecord
                ELSE push("InField")

\* Every record of the buffer, the first one included.
ParseRecords(data) == ParseFrom(data, 1, "StartRecord", <<>>, <<>>, <<>>)

\* Reader::records / Reader::deserialize see the records after the header
\* when has_headers is set, every record otherwise; the reader is not
\* flexible, so a record of another length than the first is a csv::Error.
ReadRecords(data, hasHeaders) ==
    LET all == ParseRecords(data)
    IN IF ~EqualLengths(all)
       THEN [ok |-> FALSE, headers |-> <<>>, records |-> <<>>]
       ELSE IF hasHeaders /\ all # <<>>
            THEN [ok |-> TRUE, headers |-> Head(all), records |-> Tail(all)]
            ELSE [ok |-> TRUE, headers |-> <<>>, records |-> all]

\* ------------------------------------------------------------- results

Ok(records) == [status |-> "ok", records |-> records, err |-> "none"]

Err(kind) == [status |-> "err", records |-> <<>>, err |-> kind]

\* Option::unwrap on None.
Panic == [status |-> "panic", records |-> <<>>, err |-> "unwrap_none"]

\* ---------------------------------------------------------- deserialize

Columns(headers, fieldName) == {j \in 1..Len(headers) : headers[j] = fieldName}

\* A plausible slip: fields taken by position, the header row ignored.
DeserializeRowByPosition(headers, row) ==
    IF Len(row) < FieldCount \/ ParseU64(row[2]) < 0
    THEN [ok |-> FALSE, obj |-> [name |-> <<>>, number_of_foos |-> 0]]
    ELSE [ok |-> TRUE, obj |-> [name |-> row[1], number_of_foos |-> ParseU64(row[2])]]

\* csv's deserializer with headers hands serde a map from header[j] to
\* row[j]; the derived visitor wants each field exactly once (unknown
\* columns are ignored) and parses the cell into the field's type.
DeserializeRow(headers, row) ==
    LET nameCols == Columns(headers, NameField)
        foosCols == Columns(headers, NumberOfFoosField)
        bad == [ok |-> FALSE, obj |-> [name |-> <<>>, number_of_foos |-> 0]]
    IN IF Cardinality(nameCols) # 1 \/ Cardinality(foosCols) # 1 THEN bad
       ELSE LET nameCell == row[CHOOSE j \in nameCols : TRUE]
                foosCell == row[CHOOSE j \in foosCols : TRUE]
            IN IF ParseU64(foosCell) < 0 THEN bad
               ELSE [ok |-> TRUE,
                     obj |-> [name |-> nameCell, number_of_foos |-> ParseU64(foosCell)]]

\* ------------------------------------------------- the three transforms

WritePageHasHeadersDropped == TRUE

\* write_page re-reads what it serialized with has_headers(false).
WritePageHasHeaders == FALSE

AppendRowHasHeadersKept == FALSE

\* append_row re-reads what it serialized with has_headers(true).
AppendRowHasHeaders == TRUE

\* The rows write_page puts into its ValueRange.
WritePageValues(objects) ==
    ReadRecords(SerializeObjects(objects), WritePageHasHeaders)

\* The rows append_row puts into its ValueRange.
AppendRowValues(obj) ==
    ReadRecords(SerializeObjects(<<obj>>), AppendRowHasHeaders)

\* The deserialize loop of read_all over what the reader yields.
DeserializeRecords(rd) ==
    IF ~rd.ok \/ \E i \in 1..Len(rd.records) : ~DeserializeRow(rd.headers, rd.records[i]).ok
    THEN Err("CSVError")
    ELSE Ok([i \in 1..Len(rd.records) |-> DeserializeRow(rd.headers, rd.records[i]).obj])

\* read_all after the fetch: the rows are written out as CSV and read back
\* with has_headers(true), each record deserialized; the first error ends it.
ReadAllDecode(rows) ==
    IF ~EqualLengths(rows) THEN Err("CSVError")
    ELSE DeserializeRecords(ReadRecords(WriteRecords(rows), TRUE))

\* ------------------------------------------------------- the grid store

\* Option<Vec<Vec<String>>> of a fetched ValueRange.
None == [some |-> FALSE, rows |-> <<>>]

Some(rows) == [some |-> TRUE, rows |-> rows]

\* spreadsheets().values_clear: every cell of the tab is erased.
ValuesClear(g) == <<>>

\* spreadsheets().values_update: the rows overwrite the tab from its origin;
\* rows below the written ones are left as they were.
ValuesUpdate(g, rows) == rows \o SubSeq(g, Len(rows) + 1, Len(g))

\* spreadsheets().values_append: the rows follow the existing content.
ValuesAppend(g, rows) == g \o rows

\* spreadsheets().values_get: a tab without content comes back with no
\* `values` member at all.
ValuesGet(g) == IF g = <<>> THEN None ELSE Some(g)

\* One request sent to the store by the operation in progress.
Call(kind, rows, ok) == [kind |-> kind, rows |-> rows, ok |-> ok]

\* ------------------------------------------------------- the operations

Outcome(g, cs, res) == [grid |-> g, calls |-> cs, result |-> res]

\* A plausible slip: the result of clear_tab is dropped instead of `?`.
WritePageIgnoringClearError(g, objects, clearOk, updateOk) ==
    LET rd == WritePageValues(objects)
        cleared == IF clearOk THEN ValuesClear(g) ELSE g
        clearCall == Call("clear", <<>>, clearOk)
    IN IF ~updateOk
       THEN Outcome(cleared, <<clearCall, Call("update", rd.records, FALSE)>>,
                    Err("SheetsError"))
       ELSE Outcome(ValuesUpdate(cleared, rd.records),
                    <<clearCall, Call("update", rd.records, TRUE)>>, Ok(<<>>))

\* A plausible variant: no update request for an empty slice of objects.
WritePageSkippingEmpty(g, objects, clearOk, updateOk) ==
    LET rd == WritePageValues(objects)
        clearCall == Call("clear", <<>>, clearOk)
    IN IF ~clearOk THEN Outcome(g, <<clearCall>>, Err("SheetsError"))
       ELSE IF objects = <<>> THEN Outcome(ValuesClear(g), <<clearCall>>, Ok(<<>>))
       ELSE IF ~updateOk
       THEN Outcome(ValuesClear(g), <<clearCall, Call("update", rd.records, FALSE)>>,
                    Err("SheetsError"))
       ELSE Outcome(ValuesUpdate(ValuesClear(g), rd.records),
                    <<clearCall, Call("update", rd.records, TRUE)>>, Ok(<<>>))

\* write_page: clear_tab()?, serialize, re-read, values_update()?.
WritePage(g, objects, clearOk, updateOk) ==
    LET rd == WritePageValues(objects)
        clearCall == Call("clear", <<>>, clearOk)
    IN IF ~clearOk THEN Outcome(g, <<clearCall>>, Err("SheetsError"))
       ELSE IF ~rd.ok THEN Outcome(ValuesClear(g), <<clearCall>>, Err("CSVError"))
       ELSE IF ~updateOk
       THEN Outcome(ValuesClear(g), <<clearCall, Call("update", rd.records, FALSE)>>,
                    Err("SheetsError"))
       ELSE Outcome(ValuesUpdate(ValuesClear(g), rd.records),
                    <<clearCall, Call("update", rd.records, TRUE)>>, Ok(<<>>))

\* A plausible slip: the tab is cleared before the row is appended.
AppendRowClearingFirst(g, obj, appendOk) ==
    LET rd == AppendRowValues(obj)
    IN IF ~appendOk
       THEN Outcome(ValuesClear(g),
                    <<Call("clear", <<>>, TRUE), Call("append", rd.records, FALSE)>>,
                    Err("SheetsError"))
       ELSE Outcome(ValuesAppend(ValuesClear(g), rd.records),
                    <<Call("clear", <<>>, TRUE), Call("append", rd.records, TRUE)>>,
                    Ok(<<>>))

\* append_row: serialize, re-read, values_append()?.
AppendRow(g, obj, appendOk) ==
    LET rd == AppendRowValues(obj)
    IN IF ~rd.ok THEN Outcome(g, <<>>, Err("CSVError"))
       ELSE IF ~appendOk
       THEN Outcome(g, <<Call("append", rd.records, FALSE)>>, Err("SheetsError"))
       ELSE Outcome(ValuesAppend(g, rd.records),
                    <<Call("append", rd.records, TRUE)>>, Ok(<<>>))

\* read_all: values_get()?, values.unwrap(), then the decode.
ReadAll(g, getOk) ==
    IF ~getOk THEN Outcome(g, <<Call("get", <<>>, FALSE)>>, Err("SheetsError"))
    ELSE LET values == ValuesGet(g)
         IN Outcome(g, <<Call("get", <<>>, TRUE)>>,
                    IF values.some THEN ReadAllDecode(values.rows) ELSE Panic)

\* ------------------------------------------------------------- inputs

\* Values of number_of_foos: one digit and several digits.
Numbers == {0, 12}

\* Objects handed to the operations: names with a delimiter, a quote and a
\* line break in them, as generate_sample_objects would with other names.
SampleObjects ==
    { [name |-> <<"a", COMMA>>, number_of_foos |-> 0],
      [name |-> <<QUOTE, NL>>, number_of_foos |-> 12] }

\* Objects handed to the codec alone: every name up to MaxTextLen.
CodecObjects == [name : SeqUpTo(NameChars, MaxTextLen), number_of_foos : Numbers]

NoOp == [name |-> "none", objects |-> <<>>]

NotWritten == [valid |-> FALSE, objects |-> <<>>]

\* --------------------------------------------- specification: operations

\* A fresh tab, nothing called yet. written/appended/replaced are history:
\* the objects of the last write_page that went through, the objects
\* appended since, and the length of the write_page slice it replaced.
Init ==
    /\ grid = <<>>
    /\ op = NoOp
    /\ calls = <<>>
    /\ result = Ok(<<>>)
    /\ written = NotWritten
    /\ appended = <<>>
    /\ replaced = -1

WritePageStep ==
    \E objects \in SeqUpTo(SampleObjects, MaxObjects), clearOk \in BOOLEAN, updateOk \in BOOLEAN :
        \* the update's outcome is drawn only when the update is reached
        /\ clearOk \/ updateOk
        /\ \E out \in {WritePage(grid, objects, clearOk, updateOk)} :
            LET done == out.result.status = "ok"
                cleared == out.calls[1].ok
            IN /\ grid' = out.grid
               /\ calls' = out.calls
               /\ result' = out.result
               /\ op' = [name |-> "write_page", objects |-> objects]
               /\ written' = IF done THEN [valid |-> TRUE, objects |-> objects]
                             ELSE IF cleared THEN NotWritten ELSE written
               /\ appended' = IF cleared THEN <<>> ELSE appended
               /\ replaced' = IF done
                              THEN (IF written.valid /\ appended = <<>>
                                    THEN Len(written.objects) ELSE -1)
                              ELSE IF cleared THEN -1 ELSE replaced

AppendRowStep ==
    /\ Len(grid) < MaxRows
    /\ \E obj \in SampleObjects, appendOk \in BOOLEAN :
        \E out \in {AppendRow(grid, obj, appendOk)} :
           /\ grid' = out.grid
           /\ calls' = out.calls
           /\ result' = out.result
           /\ op' = [name |-> "append_row", objects |-> <<obj>>]
           /\ appended' = IF out.result.status = "ok" THEN Append(appended, obj)
                          ELSE appended
           /\ UNCHANGED <<written, replaced>>

ReadAllStep ==
    \E getOk \in BOOLEAN :
        \E out \in {ReadAll(grid, getOk)} :
           /\ grid' = out.grid
           /\ calls' = out.calls
           /\ result' = out.result
           /\ op' = [name |-> "read_all", objects |-> <<>>]
           /\ UNCHANGED <<written, appended, replaced>>

Next == WritePageStep \/ AppendRowStep \/ ReadAllStep

Spec == Init /\ [][Next]_vars

\* -------------------------------------------------- specification: codec

\* The two transforms alone, no store in between: a slice of objects is
\* encoded as write_page does, its columns are optionally permuted, and the
\* grid is decoded as read_all does.
CodecInit ==
    /\ grid = <<>>
    /\ op \in {[name |-> "input", objects |-> objects] :
                   objects \in SeqUpTo(CodecObjects, MaxObjects)}
    /\ calls = <<>>
    /\ result = Ok(<<>>)
    /\ written = NotWritten
    /\ appended = <<>>
    /\ replaced = -1

PermuteColumns(g, p) ==
    [i \in 1..Len(g) |-> [j \in 1..Len(g[i]) |-> g[i][p[j]]]]

ColumnOrders == {p \in [1..FieldCount -> 1..FieldCount] : \A j \in 1..FieldCount : \E k \in 1..FieldCount : p[k] = j}

CodecEncode ==
    /\ op.name = "input"
    /\ grid' = WritePageValues(op.objects).records
    /\ op' = [op EXCEPT !.name = "encoded"]
    /\ UNCHANGED <<calls, result, written, appended, replaced>>

CodecPermute ==
    /\ op.name = "encoded"
    /\ \E p \in ColumnOrders :
          /\ p # [j \in 1..FieldCount |-> j]
          /\ grid' = PermuteColumns(grid, p)
    /\ op' = [op EXCEPT !.name = "permuted"]
    /\ UNCHANGED <<calls, result, written, appended, replaced>>

CodecDecode ==
    /\ op.name \in {"encoded", "permuted"}
    /\ result' = ReadAllDecode(grid)
    /\ op' = [op EXCEPT !.name = IF op.name = "encoded" THEN "decoded"
                                 ELSE "decoded_permuted"]
    /\ UNCHANGED <<grid, calls, written, appended, replaced>>

CodecNext == CodecEncode \/ CodecPermute \/ CodecDecode

CodecSpec == CodecInit /\ [][CodecNext]_vars

\* ---------------------------------------------------------------- claims

\* The last operation was a read_all whose fetch went through.
ReadDone == op.name = "read_all" /\ calls[1].ok

\* The requests of kind `kind` sent by the last operation.
CallsOf(kind) == {i \in 1..Len(calls) : calls[i].kind = kind}

\* C1: after write_page(R) with R non-empty and append_row(a) for each a of A
\* in order, read_all returns exactly R followed by A, and the stored grid
\* holds exactly one header row (the appends add none).
C1_AppendAfterReplace ==
    (ReadDone /\ written.valid /\ written.objects # <<>>) =>
        /\ result = Ok(written.objects \o appended)
        /\ grid[1] = HeaderRow
        /\ Cardinality({i \in 1..Len(grid) : grid[i] = HeaderRow}) = 1
        /\ Len(grid) = 1 + Len(written.objects) + Len(appended)

C1_Witness ==
    /\ ReadDone /\ written.valid
    /\ Len(written.objects) >= 1
    /\ Len(appended) >= 2 /\ appended[1] # appended[2]
    /\ result.status = "ok" /\ Len(result.records) >= 3

\* C2: after write_page(R1) and then write_page(R2) with len(R2) < len(R1), a
\* following read_all returns exactly R2.
C2_ReplaceOverwrite ==
    (ReadDone /\ written.valid /\ appended = <<>> /\ replaced > Len(written.objects)) =>
        result = Ok(written.objects)

\* C3: decoding the encoding of R (header as row 0, then one row per object)
\* yields R exactly, names with commas, quotes or line breaks included.
C3_RoundTrip ==
    op.name = "decoded" => result = Ok(op.objects)

C3_Witness ==
    /\ op.name = "decoded"
    /\ Len(op.objects) = 2
    /\ op.objects[1].name = <<QUOTE>>
    /\ op.objects[2].name \in {<<COMMA>>, <<NL>>}
    /\ Len(grid) = 3
    /\ result.status = "ok"

\* C4 as stated: the grid write_page sends to the store's write call has
\* exactly len(objects) rows of FieldCount cells and no header row: row i is
\* the rendering of objects[i].
C4_WrittenGridHeaderless ==
    op.name = "write_page" =>
        \A c \in CallsOf("update") :
            /\ Len(calls[c].rows) = Len(op.objects)
            /\ \A i \in 1..Len(calls[c].rows) :
                  /\ Len(calls[c].rows[i]) = FieldCount
                  /\ calls[c].rows[i] = DataRow(op.objects[i])

\* C4 amended: for a non-empty slice the grid write_page sends has
\* len(objects) + 1 rows of FieldCount cells, the header row first and the
\* rendering of objects[i] after it; for an empty slice it has no row.
C4_WrittenGridHasHeader ==
    op.name = "write_page" =>
        \A c \in CallsOf("update") :
            /\ \A i \in 1..Len(calls[c].rows) : Len(calls[c].rows[i]) = FieldCount
            /\ calls[c].rows =
                 IF op.objects = <<>> THEN <<>>
                 ELSE <<HeaderRow>> \o [i \in 1..Len(op.objects) |-> DataRow(op.objects[i])]

C4_Witness ==
    /\ op.name = "write_page"
    /\ Len(op.objects) = 2
    /\ Len(calls) = 2 /\ calls[2].kind = "update" /\ calls[2].ok
    /\ Len(calls[2].rows) = 3

\* C5 as stated: write_page with an empty slice still issues the clear and
\* issues no write (update) call.
C5_EmptyReplaceNoWrite ==
    (op.name = "write_page" /\ op.objects = <<>>) =>
        /\ calls[1].kind = "clear"
        /\ CallsOf("update") = {}

\* C5 amended: write_page with an empty slice issues the clear and, when the
\* clear went through, one update call carrying a grid of zero rows.
C5_EmptyReplaceWritesNoRows ==
    (op.name = "write_page" /\ op.objects = <<>>) =>
        /\ calls[1].kind = "clear"
        /\ calls[1].ok => (Len(calls) = 2 /\ calls[2].kind = "update" /\ calls[2].rows = <<>>)
        /\ ~calls[1].ok => Len(calls) = 1

C5_Witness ==
    /\ op.name = "write_page" /\ op.objects = <<>>
    /\ Len(calls) = 2 /\ calls[1].ok /\ calls[2].ok
    /\ grid = <<>>

\* C6: when the store reports no values at all for the range, read_all
\* returns the error ReadError::NoData: no records, no abnormal end.
C6_NoDataError ==
    (ReadDone /\ ~ValuesGet(grid).some) => result = Err("NoData")

\* C7: write_page issues its write only after its clear went through; when
\* the clear fails it returns that error and issues no write; no operation
\* sends the same request twice.
C7_ClearBeforeWrite ==
    /\ op.name = "write_page" =>
          /\ calls[1].kind = "clear"
          /\ \A c \in CallsOf("update") : c = 2 /\ calls[1].ok
          /\ ~calls[1].ok => (calls = <<Call("clear", <<>>, FALSE)>>
                              /\ result = Err("SheetsError"))
    /\ \A i, j \in 1..Len(calls) : calls[i].kind = calls[j].kind => i = j

C7_Witness ==
    /\ op.name = "write_page" /\ op.objects # <<>>
    /\ ~calls[1].ok
    /\ grid # <<>>

\* C8: append_row sends exactly one request, an append of exactly one row,
\* the data row of the object, and no clear or update; the rows of the range
\* are unchanged and the new row follows them.
C8_AppendOneRow ==
    [][op'.name = "append_row" =>
         /\ Len(calls') = 1
         /\ calls'[1].kind = "append"
         /\ calls'[1].rows = <<DataRow(op'.objects[1])>>
         /\ SubSeq(grid', 1, Len(grid)) = grid
         /\ grid' = IF calls'[1].ok THEN Append(grid, DataRow(op'.objects[1])) ELSE grid]_vars

C8_Witness ==
    /\ op.name = "append_row" /\ calls[1].ok
    /\ Len(grid) >= 3
    /\ grid[1] = HeaderRow
    /\ grid[Len(grid)] = DataRow(op.objects[1])

\* C9: decode takes column j as the field named header[j]: the grid with its
\* columns permuted (header and data rows alike) decodes to the same
\* records as the grid as encoded.
C9_HeaderOrderIndependence ==
    op.name = "decoded_permuted" =>
        result = ReadAllDecode(WritePageValues(op.objects).records)

C9_Witness ==
    /\ op.name = "decoded_permuted"
    /\ Len(op.objects) = 2
    /\ grid[1] = <<NumberOfFoosField, NameField>>
    /\ result = Ok(op.objects)

\* The header cells name every field of the record exactly once.
NamesEveryField(headers) ==
    Cardinality(Columns(headers, NameField)) = 1
    /\ Cardinality(Columns(headers, NumberOfFoosField)) = 1

\* write_page([]) went through and k >= 1 rows were appended since.
AppendedToEmpty == ReadDone /\ written.valid /\ written.objects = <<>> /\ Len(appended) >= 1

\* C10 as stated: after write_page([]) and append_row(r1), ..., append_row(rk),
\* k >= 1, read_all returns k-1 records.
C10_ReadReturnsAllButFirst ==
    AppendedToEmpty =>
        /\ result.status = "ok"
        /\ Len(result.records) = Len(appended) - 1

\* C10 amended: after write_page([]) and append_row(r1), ..., append_row(rk),
\* row 0 of the range is r1's row and read_all takes it as the header: with
\* k = 1 it returns no record, and with k >= 2 it returns a CSV error, as
\* r1's cells do not name the fields of the record.
C10_FirstAppendIsHeader ==
    AppendedToEmpty =>
        /\ grid[1] = DataRow(appended[1])
        /\ Len(appended) = 1 => result = Ok(<<>>)
        /\ (Len(appended) >= 2 /\ ~NamesEveryField(grid[1])) => result = Err("CSVError")

C10_Witness ==
    /\ AppendedToEmpty
    /\ Len(appended) >= 2
    /\ Len(grid) = Len(appended)
    /\ result = Err("CSVError")

====
